---- MODULE Spec2Model ----
(***************************************************************************)
(* Model of the RTIC application analysis: the validation pass             *)
(* (src/check.rs `app`) followed by the analysis (src/analyze.rs `app`).   *)
(* The application model `app` is the immutable input; every section of    *)
(* analyze::app is one action, taken in the order of the source.           *)
(*                                                                         *)
(* Option<T> is modelled as a set with at most one element: None is {} and *)
(* Some(x) is {x}.  Maps (BTreeMap / IndexMap) are functions whose DOMAIN  *)
(* is the set of keys present.                                             *)
(***************************************************************************)
EXTENDS Integers, Sequences, FiniteSets, TLC

VARIABLES
    app,                      \* the application model (ast::App), never modified
    debug,                    \* whether the build has debug assertions enabled
    pc,                       \* position in check::app / analyze::app
    error,                    \* the error check::app returned ("" if none)
    late_resources,           \* Analysis.late_resources
    locations,                \* Analysis.locations
    ownerships,               \* Analysis.ownerships
    sync_types,               \* Analysis.sync_types
    initialization_barriers,  \* Analysis.initialization_barriers
    send_types,               \* Analysis.send_types
    timer_queues,             \* Analysis.timer_queues
    channels,                 \* Analysis.channels
    free_queues,              \* Analysis.free_queues
    used_cores                \* Analysis.used_cores

vars == <<app, debug, pc, error, late_resources, locations, ownerships, sync_types,
          initialization_barriers, send_types, timer_queues, channels, free_queues,
          used_cores>>

(***************************************************************************)
(* Bounds of the model and the universe of identifiers                     *)
(***************************************************************************)
\* two-core configuration, as in the multi-core tests (`cores = 2`)
Cores == {0, 1}
\* resource identifiers
Names == {"a", "b"}
\* highest task priority enumerated
MaxPrio == 2
Prios == 0..MaxPrio
\* longest resource_accesses() sequence enumerated in the ownership family
MaxAccesses == 3
\* longest resource_accesses() sequence enumerated in the two-core ownership family
MaxCoreAccesses == 2
\* longest resource_accesses() sequence enumerated in the late-resource family
MaxLateAccesses == 2
\* longest spawn_calls() ++ schedule_calls() enumerated
MaxCalls == 2

None == {}
Some(x) == {x}

Max(x, y) == IF x >= y THEN x ELSE y

\* the value held by Some(v)
Unwrap(o) == CHOOSE v \in o : TRUE

EmptyMap == << >>

\* map.insert(k, v) / *map.entry(k).or_default() = v
Put(f, k, v) == [x \in (DOMAIN f) \cup {k} |-> IF x = k THEN v ELSE f[x]]

\* map.entry(k).or_default() read: the entry, or the default when absent
Entry(f, k, d) == IF k \in DOMAIN f THEN f[k] ELSE d

\* set-valued map: map.entry(k).or_default().insert(v)
Insert(f, k, v) == Put(f, k, Entry(f, k, {}) \cup {v})

\* set-valued map: map.entry(k).or_default().extend(vs)
Extend(f, k, vs) == Put(f, k, Entry(f, k, {}) \cup vs)

Range(s) == {s[i] : i \in DOMAIN s}

Min(S) == CHOOSE x \in S : \A y \in S : x <= y

\* ascending iteration order of a BTreeMap / BTreeSet keyed by integers
RECURSIVE Sorted(_)
Sorted(S) == IF S = {} THEN << >> ELSE <<Min(S)>> \o Sorted(S \ {Min(S)})

\* sequences over S of length at most n
SeqUpTo(S, n) == UNION {[1..k -> S] : k \in 0..n}

(***************************************************************************)
(* The application model                                                   *)
(***************************************************************************)
\* declared type of a resource
ResTy(name) == IF name = "a" THEN "Ta" ELSE "Tb"

\* app.resource(name): Some(..) when the name is a declared (late or early) resource
resource(a, name) ==
    IF name \in a.late_resources \cup a.resources THEN Some(ResTy(name)) ELSE None

\* app.resource_accesses(): (core, priority-or-none, name, access); check.rs reads
\* the same sequence without the core
resource_accesses(a) == a.accesses

\* the names in init.args.resources over all inits: the accesses without a priority
InitResources(a) ==
    {acc.name : acc \in {x \in Range(a.accesses) : x.prio = None}}

spawn_calls(a) == a.spawn_calls

schedule_calls(a) == a.schedule_calls

(***************************************************************************)
(* check::app                                                              *)
(***************************************************************************)
\* an accumulation that also counts the `Exclusive` accesses of init
exclusive_accesses_with_init(a) ==
    {acc.name : acc \in {x \in Range(resource_accesses(a)) : x.access = "Exclusive"}}

\* names with an `Exclusive` access from a context that has a priority
exclusive_accesses(a) ==
    {acc.name : acc \in {x \in Range(resource_accesses(a)) :
                            x.prio # None /\ x.access = "Exclusive"}}

\* the Err check::app returns, or "" for Ok(())
CheckApp(a) ==
    IF \E acc \in Range(resource_accesses(a)) : resource(a, acc.name) = None
    THEN "this resource has NOT been declared"
    ELSE IF \E acc \in Range(resource_accesses(a)) :
                acc.access = "Shared" /\ acc.name \in exclusive_accesses(a)
    THEN "shared - exclusive locks are not supported"
    ELSE IF a.late_resources # {} /\ DOMAIN a.inits = {}
    THEN "late resources exist so a #[init] function must be defined"
    ELSE IF \E t \in DOMAIN a.hardware_tasks :
                a.hardware_tasks[t].binds \in a.extern_interrupts
    THEN "dispatcher interrupts can't be used as hardware tasks"
    ELSE ""

(***************************************************************************)
(* analyze::app, a. which core initializes which resources                 *)
(***************************************************************************)
\* one iteration of `for (&core, init) in &app.inits`
LateStep(a, st, core) ==
    IF a.inits[core].late = {}
    THEN [st EXCEPT !.asserted = st.asserted /\ st.rest = None,
                    !.rest = Some(core)]
    ELSE [st EXCEPT !.late = Extend(st.late, core, a.inits[core].late),
                    !.resources = st.resources \ a.inits[core].late]

RECURSIVE LateLoop(_, _, _)
LateLoop(a, st, cs) ==
    IF cs = << >> THEN st
    ELSE LateLoop(a, LateStep(a, st, Head(cs)), Tail(cs))

\* lines 13-36: the late_resources map, and whether debug_assert!(rest.is_none()) held
LateAssignment(a) ==
    IF a.late_resources = {}
    THEN [late |-> EmptyMap, asserted |-> TRUE]
    ELSE LET st == LateLoop(a, [late |-> EmptyMap, resources |-> a.late_resources,
                                rest |-> None, asserted |-> TRUE],
                            Sorted(DOMAIN a.inits))
         IN  [late |-> IF st.rest # None
                       THEN Put(st.late, Unwrap(st.rest), st.resources)
                       ELSE st.late,
              asserted |-> st.asserted]

(***************************************************************************)
(* analyze::app, c-f. ownership, Sync types, locations, barriers           *)
(***************************************************************************)
Owned(p) == [kind |-> "Owned", priority |-> p]
CoOwned(p) == [kind |-> "CoOwned", priority |-> p]
Contended(c) == [kind |-> "Contended", ceiling |-> c]

\* the `ceiling` bound by the patterns of the first match arm
Level(o) == IF o.kind = "Contended" THEN o.ceiling ELSE o.priority

\* a fold that keeps the priority of the latest access as the ceiling
OwnershipAfterLatest(o, priority) ==
    IF priority # Level(o) THEN Contended(priority)
    ELSE IF o.kind = "Owned" THEN CoOwned(priority)
    ELSE o

\* the `match *ownership` of an access at `priority` to a resource already on record
OwnershipAfter(o, priority) ==
    IF priority # Level(o) THEN Contended(Max(Level(o), priority))
    ELSE IF o.kind = "Owned" THEN CoOwned(priority)
    ELSE o

\* a fold that takes an access from init for an access at priority 0
OwnershipStepCountingInit(own, acc) ==
    LET priority == IF acc.prio = None THEN 0 ELSE Unwrap(acc.prio)
    IN  IF acc.name \in DOMAIN own
        THEN Put(own, acc.name, OwnershipAfter(own[acc.name], priority))
        ELSE Put(own, acc.name, Owned(priority))

\* (c) the ownerships map after one access
OwnershipStep(own, acc) ==
    IF acc.prio = None THEN own
    ELSE IF acc.name \in DOMAIN own
         THEN Put(own, acc.name, OwnershipAfter(own[acc.name], Unwrap(acc.prio)))
         ELSE Put(own, acc.name, Owned(Unwrap(acc.prio)))

\* (d) the sync_types map after one access: the first match arm, taken by a Shared access
SyncStep(a, own, sync, acc) ==
    IF /\ acc.prio # None
       /\ acc.name \in DOMAIN own
       /\ Unwrap(acc.prio) # Level(own[acc.name])
       /\ acc.access = "Shared"
    THEN Insert(sync, acc.core, Unwrap(resource(a, acc.name)))
    ELSE sync

\* (f) the initializer cores the receiver of this access must wait for
BarrierSenders(late, acc) ==
    {sender \in DOMAIN late : sender # acc.core /\ acc.name \in late[sender]}

BarrierStep(late, bar, acc) ==
    IF BarrierSenders(late, acc) = {} THEN bar
    ELSE Extend(bar, acc.core, BarrierSenders(late, acc))

\* one iteration of `for (core, prio, name, access) in app.resource_accesses()`
AccessStep(a, late, st, acc) ==
    [locations |-> Put(st.locations, acc.name, [core |-> acc.core]),
     ownerships |-> OwnershipStep(st.ownerships, acc),
     sync_types |-> SyncStep(a, st.ownerships, st.sync_types, acc),
     barriers |-> BarrierStep(late, st.barriers, acc)]

RECURSIVE AccessLoop(_, _, _, _)
AccessLoop(a, late, st, accs) ==
    IF accs = << >> THEN st
    ELSE AccessLoop(a, late, AccessStep(a, late, st, Head(accs)), Tail(accs))

\* Ownership::needs_lock
needs_lock(o, priority) ==
    IF o.kind \in {"Owned", "CoOwned"} THEN FALSE ELSE priority < o.ceiling

\* the debug_assert!(*ceiling >= priority) inside needs_lock
needs_lock_assertion(o, priority) ==
    o.kind = "Contended" => o.ceiling >= priority

(***************************************************************************)
(* analyze::app, Send-ness of late resources and of resources shared       *)
(* with init                                                               *)
(***************************************************************************)
owned_by_idle == Owned(0)

\* the key of `send_types.entry(0)` in both resource loops
ResourceSendCore == 0

NotOwnedByIdle(own, name) == name \in DOMAIN own /\ own[name] # owned_by_idle

\* lines 116-125
LateSend(a, own) ==
    LET tys == {ResTy(name) : name \in {n \in a.late_resources : NotOwnedByIdle(own, n)}}
    IN  IF tys = {} THEN EmptyMap ELSE Extend(EmptyMap, ResourceSendCore, tys)

\* lines 128-141: `app.resources[name]` panics when `name` is not in app.resources
InitSendPanics(a, own) ==
    \E name \in InitResources(a) : NotOwnedByIdle(own, name) /\ name \notin a.resources

InitSend(a, own, send) ==
    LET tys == {ResTy(name) : name \in {n \in InitResources(a) : NotOwnedByIdle(own, n)}}
    IN  IF tys = {} THEN send ELSE Extend(send, ResourceSendCore, tys)

(***************************************************************************)
(* analyze::app, timer queues, channels, free queues                       *)
(***************************************************************************)
\* TimerQueue::default(): capacity 0, ceiling 1, priority 1, no tasks
DefaultTimerQueuePriority == 1
DefaultTimerQueue ==
    [capacity |-> 0, ceiling |-> DefaultTimerQueuePriority,
     priority |-> DefaultTimerQueuePriority, tasks |-> {}]

\* Channel::default(): capacity 0, ceiling None, no tasks
DefaultChannel == [capacity |-> 0, ceiling |-> None, tasks |-> {}]

\* a handler that takes the priority of the task scheduled last
TimerQueueStepLatest(a, tqs, call) ==
    LET tq == Entry(tqs, call.core, DefaultTimerQueue)
        priority == a.software_tasks[call.name].priority
    IN  Put(tqs, call.core,
            [tq EXCEPT !.tasks = tq.tasks \cup {call.name},
                       !.priority = priority,
                       !.ceiling = priority])

\* one iteration of the loop that initializes the timer queues (lines 145-158)
TimerQueueStep(a, tqs, call) ==
    LET tq == Entry(tqs, call.core, DefaultTimerQueue)
        priority == Max(tq.priority, a.software_tasks[call.name].priority)
    IN  Put(tqs, call.core,
            [tq EXCEPT !.tasks = tq.tasks \cup {call.name},
                       !.priority = priority,
                       !.ceiling = priority])

RECURSIVE TimerQueueLoop(_, _, _)
TimerQueueLoop(a, tqs, calls) ==
    IF calls = << >> THEN tqs
    ELSE TimerQueueLoop(a, TimerQueueStep(a, tqs, Head(calls)), Tail(calls))

\* a ceiling that is overwritten by each call site instead of raised
RaiseCeilingOverwrite(ceiling, prio) == Some(prio)

\* `match ceiling { None => Some(prio), Some(ceil) => Some(max(prio, ceil)) }`
RaiseCeiling(ceiling, prio) ==
    IF ceiling = None THEN Some(prio) ELSE Some(Max(prio, Unwrap(ceiling)))

\* (j)/(o) whether the message of this call must be Send
must_be_send(call, callee) ==
    IF call.prio # None
    THEN call.core = callee.core /\ callee.priority # Unwrap(call.prio)
    ELSE call.core = callee.core

\* lines 212-226 / 285-299: the payload types go to the caller's and the callee's core
SendStep(send, call, callee) ==
    IF must_be_send(call, callee)
    THEN Extend(Extend(send, call.core, callee.inputs), callee.core, callee.inputs)
    ELSE send

\* the key of the channel a call is routed along: receiver, dispatch priority, sender
ChannelKey(call, callee) == <<callee.core, callee.priority, call.core>>

\* the key of the free queue of a call: task, sender
FreeQueueKey(call) == <<call.name, call.core>>

\* one iteration of `for (spawner_core, spawner_prio, name) in app.spawn_calls()`
SpawnStep(a, st, call) ==
    LET spawnee == a.software_tasks[call.name]
        key == ChannelKey(call, spawnee)
        channel == Entry(st.channels, key, DefaultChannel)
        fq == Entry(st.free_queues, FreeQueueKey(call), None)
    IN  [channels |-> Put(st.channels, key,
                          [channel EXCEPT
                             !.tasks = channel.tasks \cup {call.name},
                             !.ceiling = IF call.prio # None
                                         THEN RaiseCeiling(channel.ceiling, Unwrap(call.prio))
                                         ELSE channel.ceiling]),
         free_queues |-> Put(st.free_queues, FreeQueueKey(call),
                             IF call.prio # None
                             THEN RaiseCeiling(fq, Unwrap(call.prio))
                             ELSE fq),
         send_types |-> SendStep(st.send_types, call, spawnee),
         timer_queues |-> st.timer_queues]

\* one iteration of the second `for (..) in app.schedule_calls()` (lines 234-300)
ScheduleStep(a, st, call) ==
    LET schedulee == a.software_tasks[call.name]
        tq == st.timer_queues[call.core]
        key == ChannelKey(call, schedulee)
        channel == Entry(st.channels, key, DefaultChannel)
        fq == Entry(st.free_queues, FreeQueueKey(call), None)
    IN  [channels |-> Put(st.channels, key,
                          [channel EXCEPT
                             !.tasks = channel.tasks \cup {call.name},
                             !.ceiling = RaiseCeiling(channel.ceiling, tq.priority)]),
         free_queues |-> Put(st.free_queues, FreeQueueKey(call),
                             IF call.prio # None
                             THEN RaiseCeiling(fq, Unwrap(call.prio))
                             ELSE fq),
         send_types |-> SendStep(st.send_types, call, schedulee),
         timer_queues |-> IF call.prio # None
                          THEN Put(st.timer_queues, call.core,
                                   [tq EXCEPT !.ceiling = Max(tq.ceiling, Unwrap(call.prio))])
                          ELSE st.timer_queues]

RECURSIVE SpawnLoop(_, _, _)
SpawnLoop(a, st, calls) ==
    IF calls = << >> THEN st
    ELSE SpawnLoop(a, SpawnStep(a, st, Head(calls)), Tail(calls))

RECURSIVE ScheduleLoop(_, _, _)
ScheduleLoop(a, st, calls) ==
    IF calls = << >> THEN st
    ELSE ScheduleLoop(a, ScheduleStep(a, st, Head(calls)), Tail(calls))

(***************************************************************************)
(* analyze::app, capacities                                                *)
(***************************************************************************)
\* the number of values of the u8 that stores a capacity
U8Modulus == 256

\* the exact sum of the declared capacities of a task set
RECURSIVE CapacitySum(_, _)
CapacitySum(a, tasks) ==
    IF tasks = {} THEN 0
    ELSE LET t == CHOOSE x \in tasks : TRUE
         IN  a.software_tasks[t].capacity + CapacitySum(a, tasks \ {t})

\* `.sum()` over u8: wraps in a build without overflow checks
SumU8(a, tasks) == CapacitySum(a, tasks) % U8Modulus

\* `.sum()` over u8: panics in a build with overflow checks
SumOverflows(a, tasks) == CapacitySum(a, tasks) >= U8Modulus

\* lines 308-327
WithCapacities(a, m) == [k \in DOMAIN m |-> [m[k] EXCEPT !.capacity = SumU8(a, m[k].tasks)]]

CapacityPanics(a, chs, tqs) ==
    \/ \E k \in DOMAIN chs : SumOverflows(a, chs[k].tasks)
    \/ \E k \in DOMAIN tqs : SumOverflows(a, tqs[k].tasks)

(***************************************************************************)
(* The applications enumerated                                             *)
(***************************************************************************)
Modes == {"Exclusive", "Shared"}

\* priority-or-none of a context: None for init, 0 for idle, the priority of a task
PrioOpts == {None} \cup {Some(p) : p \in Prios}

\* payload types of the software tasks
Inputs(t) == IF t = "t1" THEN {"M1"} ELSE {"M2"}

\* an init on every core, none of them with a `late` list
PlainInits == [c \in Cores |-> [late |-> {}]]

\* an application with two early resources, an init per core and nothing else
BaseApp ==
    [late_resources |-> {}, resources |-> Names, inits |-> PlainInits, idles |-> {},
     accesses |-> << >>, hardware_tasks |-> EmptyMap, extern_interrupts |-> {},
     software_tasks |-> EmptyMap, spawn_calls |-> << >>, schedule_calls |-> << >>]

\* accesses without a priority come from an init routine, which must exist
InitsCoverAccesses(a) ==
    \A acc \in Range(a.accesses) : acc.prio = None => acc.core \in DOMAIN a.inits

\* ownership family: one core, both resources, every order of up to MaxAccesses
\* accesses; the second resource may be left undeclared
OwnAccesses ==
    SeqUpTo([core : {0}, prio : PrioOpts, name : Names, access : Modes], MaxAccesses)

OwnApps ==
    {[BaseApp EXCEPT !.accesses = accs, !.resources = rs] :
        accs \in OwnAccesses, rs \in {Names, {"a"}}}

\* two-core ownership family: one resource accessed from both cores
CoreAccesses ==
    SeqUpTo([core : Cores, prio : PrioOpts, name : {"a"}, access : Modes], MaxCoreAccesses)

CoreApps == {[BaseApp EXCEPT !.accesses = accs] : accs \in CoreAccesses}

\* hardware tasks and dispatcher interrupts
Interrupts == {"EXTI0", "EXTI1"}

HwApps ==
    {[BaseApp EXCEPT !.hardware_tasks = [h \in {"h"} |-> [core |-> c, binds |-> b]],
                     !.extern_interrupts = ex, !.idles = ids] :
        c \in Cores, b \in Interrupts, ex \in SUBSET Interrupts, ids \in SUBSET Cores}

\* late-resource family: which resources are late, which inits exist and what
\* their `late` lists name, and up to MaxLateAccesses accesses from any core
LateInits ==
    UNION {[cs -> [late : SUBSET Names]] : cs \in SUBSET Cores}

LateAccesses ==
    SeqUpTo([core : Cores, prio : PrioOpts, name : Names, access : {"Exclusive"}],
            MaxLateAccesses)

LateApps ==
    {a \in {[BaseApp EXCEPT !.late_resources = lr, !.resources = Names \ lr,
                            !.inits = is, !.accesses = accs] :
               lr \in {{"a"}, Names}, is \in LateInits, accs \in LateAccesses} :
        InitsCoverAccesses(a)}

\* message family: two software tasks, up to MaxCalls spawn and schedule calls
Calls == [core : Cores, prio : PrioOpts, name : {"t1", "t2"}]

CallPairs ==
    {p \in SeqUpTo(Calls, MaxCalls) \X SeqUpTo(Calls, MaxCalls) :
        Len(p[1]) + Len(p[2]) <= MaxCalls}

SoftwareTasks(c2, p2, cap1, cap2) ==
    [t \in {"t1", "t2"} |->
        IF t = "t1"
        THEN [core |-> 0, priority |-> 1, capacity |-> cap1, inputs |-> Inputs(t)]
        ELSE [core |-> c2, priority |-> p2, capacity |-> cap2, inputs |-> Inputs(t)]]

MsgApps ==
    {[BaseApp EXCEPT !.software_tasks = SoftwareTasks(c2, p2, 1, 2),
                     !.spawn_calls = p[1], !.schedule_calls = p[2]] :
        c2 \in Cores, p2 \in 1..MaxPrio, p \in CallPairs}

\* capacity family: declared capacities over the range of a u8, callers at priority 1
\* or init
Capacities == {1, 200, 255}

CapCalls == [core : Cores, prio : {None, Some(1)}, name : {"t1", "t2"}]

CapCallPairs ==
    {p \in SeqUpTo(CapCalls, MaxCalls) \X SeqUpTo(CapCalls, MaxCalls) :
        Len(p[1]) + Len(p[2]) <= MaxCalls}

CapApps ==
    {[BaseApp EXCEPT !.software_tasks = SoftwareTasks(c2, 1, cap1, cap2),
                     !.spawn_calls = p[1], !.schedule_calls = p[2]] :
        c2 \in Cores, cap1 \in Capacities, cap2 \in Capacities, p \in CapCallPairs}

(***************************************************************************)
(* The state machine                                                       *)
(***************************************************************************)
InitWith(apps, builds) ==
    /\ app \in apps
    /\ debug \in builds
    /\ pc = "check"
    /\ error = ""
    /\ late_resources = EmptyMap
    /\ locations = EmptyMap
    /\ ownerships = EmptyMap
    /\ sync_types = EmptyMap
    /\ initialization_barriers = EmptyMap
    /\ send_types = EmptyMap
    /\ timer_queues = EmptyMap
    /\ channels = EmptyMap
    /\ free_queues = EmptyMap
    /\ used_cores = {}

\* no assertion can fail in the ownership and the message families: one build is enough
InitOwn == InitWith(OwnApps \cup CoreApps \cup HwApps, {TRUE})
InitLate == InitWith(LateApps, BOOLEAN)
InitMsg == InitWith(MsgApps, {TRUE})
InitCap == InitWith(CapApps, BOOLEAN)

\* check::app; the analysis runs only on a model for which it returns Ok(())
Check ==
    /\ pc = "check"
    /\ error' = CheckApp(app)
    /\ pc' = IF CheckApp(app) = "" THEN "late" ELSE "rejected"
    /\ UNCHANGED <<app, debug, late_resources, locations, ownerships, sync_types,
                   initialization_barriers, send_types, timer_queues, channels,
                   free_queues, used_cores>>

\* analyze::app lines 12-36
AssignLateResources ==
    /\ pc = "late"
    /\ IF debug /\ ~LateAssignment(app).asserted
       THEN pc' = "panic" /\ UNCHANGED late_resources
       ELSE pc' = "accesses" /\ late_resources' = LateAssignment(app).late
    /\ UNCHANGED <<app, debug, error, locations, ownerships, sync_types,
                   initialization_barriers, send_types, timer_queues, channels,
                   free_queues, used_cores>>

\* analyze::app lines 42-111
AnalyzeAccesses ==
    /\ pc = "accesses"
    /\ IF \E acc \in Range(resource_accesses(app)) : resource(app, acc.name) = None
       THEN /\ pc' = "panic"
            /\ UNCHANGED <<locations, ownerships, sync_types, initialization_barriers>>
       ELSE LET st == AccessLoop(app, late_resources,
                                 [locations |-> EmptyMap, ownerships |-> EmptyMap,
                                  sync_types |-> EmptyMap, barriers |-> EmptyMap],
                                 resource_accesses(app))
            IN  /\ pc' = "send"
                /\ locations' = st.locations
                /\ ownerships' = st.ownerships
                /\ sync_types' = st.sync_types
                /\ initialization_barriers' = st.barriers
    /\ UNCHANGED <<app, debug, error, late_resources, send_types, timer_queues,
                   channels, free_queues, used_cores>>

\* analyze::app lines 113-141
AnalyzeResourceSend ==
    /\ pc = "send"
    /\ send_types' = InitSend(app, ownerships, LateSend(app, ownerships))
    /\ pc' = IF InitSendPanics(app, ownerships) THEN "panic" ELSE "timers"
    /\ UNCHANGED <<app, debug, error, late_resources, locations, ownerships, sync_types,
                   initialization_barriers, timer_queues, channels, free_queues,
                   used_cores>>

\* analyze::app lines 143-158
InitTimerQueues ==
    /\ pc = "timers"
    /\ timer_queues' = TimerQueueLoop(app, EmptyMap, schedule_calls(app))
    /\ pc' = "spawn"
    /\ UNCHANGED <<app, debug, error, late_resources, locations, ownerships, sync_types,
                   initialization_barriers, send_types, channels, free_queues,
                   used_cores>>

\* analyze::app lines 160-227
AnalyzeSpawns ==
    /\ pc = "spawn"
    /\ LET st == SpawnLoop(app, [channels |-> channels, free_queues |-> free_queues,
                                 send_types |-> send_types,
                                 timer_queues |-> timer_queues],
                           spawn_calls(app))
       IN  /\ channels' = st.channels
           /\ free_queues' = st.free_queues
           /\ send_types' = st.send_types
    /\ pc' = "schedule"
    /\ UNCHANGED <<app, debug, error, late_resources, locations, ownerships, sync_types,
                   initialization_barriers, timer_queues, used_cores>>

\* analyze::app lines 229-300
AnalyzeSchedules ==
    /\ pc = "schedule"
    /\ LET st == ScheduleLoop(app, [channels |-> channels, free_queues |-> free_queues,
                                    send_types |-> send_types,
                                    timer_queues |-> timer_queues],
                              schedule_calls(app))
       IN  /\ channels' = st.channels
           /\ free_queues' = st.free_queues
           /\ send_types' = st.send_types
           /\ timer_queues' = st.timer_queues
    /\ pc' = "capacity"
    /\ UNCHANGED <<app, debug, error, late_resources, locations, ownerships, sync_types,
                   initialization_barriers, used_cores>>

\* cores with an init, an idle or a task (lines 329-336)
UsedCores(a) ==
    (DOMAIN a.inits) \cup a.idles
        \cup {a.hardware_tasks[t].core : t \in DOMAIN a.hardware_tasks}
        \cup {a.software_tasks[t].core : t \in DOMAIN a.software_tasks}

\* analyze::app lines 302-350: the capacities and the Analysis returned
ComputeCapacities ==
    /\ pc = "capacity"
    /\ IF debug /\ (\/ \E k \in DOMAIN channels : channels[k].tasks = {}
                    \/ CapacityPanics(app, channels, timer_queues))
       THEN /\ pc' = "panic"
            /\ UNCHANGED <<channels, timer_queues, used_cores>>
       ELSE /\ pc' = "done"
            /\ channels' = WithCapacities(app, channels)
            /\ timer_queues' = WithCapacities(app, timer_queues)
            /\ used_cores' = UsedCores(app)
    /\ UNCHANGED <<app, debug, error, late_resources, locations, ownerships, sync_types,
                   initialization_barriers, send_types, free_queues>>

Next ==
    \/ Check
    \/ AssignLateResources
    \/ AnalyzeAccesses
    \/ AnalyzeResourceSend
    \/ InitTimerQueues
    \/ AnalyzeSpawns
    \/ AnalyzeSchedules
    \/ ComputeCapacities

SpecOwn == InitOwn /\ [][Next]_vars
SpecLate == InitLate /\ [][Next]_vars
SpecMsg == InitMsg /\ [][Next]_vars
SpecCap == InitCap /\ [][Next]_vars

(***************************************************************************)
(* Properties                                                              *)
(***************************************************************************)
SetMax(S) == CHOOSE x \in S : \A y \in S : y <= x

\* the accesses to `name` that carry a priority
PrioAccesses(a, name) ==
    {i \in DOMAIN a.accesses : a.accesses[i].name = name /\ a.accesses[i].prio # None}

\* the distinct priorities at which `name` is accessed
AccessPrios(a, name) == {Unwrap(a.accesses[i].prio) : i \in PrioAccesses(a, name)}

\* the ownerships are those analyze::app returns
OwnershipsReady == pc \in {"send", "timers", "spawn", "schedule", "capacity", "done"}

\* C1: a resource accessed at two or more distinct priorities is Contended with the
\* maximum of them as ceiling; the assertion of needs_lock holds for every accessing
\* priority, and a lock is needed exactly below the ceiling.
C1_ContendedCeiling ==
    OwnershipsReady =>
        \A name \in Names :
            Cardinality(AccessPrios(app, name)) >= 2 =>
                /\ name \in DOMAIN ownerships
                /\ ownerships[name] = Contended(SetMax(AccessPrios(app, name)))
                /\ \A p \in AccessPrios(app, name) :
                      /\ needs_lock_assertion(ownerships[name], p)
                      /\ needs_lock(ownerships[name], p)
                            <=> p < SetMax(AccessPrios(app, name))

\* three distinct priorities, the highest of them accessing first
C1_Witness ==
    /\ pc = "done"
    /\ Cardinality(AccessPrios(app, "a")) = 3
    /\ app.accesses[1].name = "a"
    /\ app.accesses[1].prio = Some(MaxPrio)
    /\ ownerships["a"] = Contended(MaxPrio)
    /\ needs_lock(ownerships["a"], 0)
    /\ ~needs_lock(ownerships["a"], MaxPrio)

\* C2: a resource whose prioritized accesses all have priority p is Owned{p} after one
\* such access and CoOwned{p} after two or more, whatever init accesses; no priority
\* needs a lock on it.
C2_SinglePriority ==
    OwnershipsReady =>
        \A name \in Names : \A p \in Prios :
            AccessPrios(app, name) = {p} =>
                /\ name \in DOMAIN ownerships
                /\ ownerships[name] =
                      IF Cardinality(PrioAccesses(app, name)) = 1
                      THEN Owned(p) ELSE CoOwned(p)
                /\ \A q \in Prios : ~needs_lock(ownerships[name], q)

\* two accesses at one priority with an access from init in between
C2_Witness ==
    /\ pc = "done"
    /\ Len(app.accesses) = 3
    /\ \A i \in 1..3 : app.accesses[i].name = "a"
    /\ app.accesses[1].prio = Some(1)
    /\ app.accesses[2].prio = None
    /\ app.accesses[3].prio = Some(1)
    /\ ownerships["a"] = CoOwned(1)

AllDeclared(a) == \A acc \in Range(a.accesses) : resource(a, acc.name) # None

\* some resource has an Exclusive access from a context with a priority and a Shared
\* access from any context
MixedAccess(a) ==
    \E x \in Range(a.accesses) : \E y \in Range(a.accesses) :
        /\ x.name = y.name
        /\ x.prio # None /\ x.access = "Exclusive"
        /\ y.access = "Shared"

MixedError == "shared - exclusive locks are not supported"

\* C5: with every accessed resource declared, check::app returns the mixed-access
\* error exactly for the models where a resource has an Exclusive access from a
\* prioritized context and a Shared access from any context; an Exclusive access from
\* init alone never causes it.
C5_MixedAccessRejected ==
    (pc # "check" /\ AllDeclared(app)) =>
        /\ MixedAccess(app) => (pc = "rejected" /\ error = MixedError)
        /\ ~MixedAccess(app) => error # MixedError

\* rejected although the only Shared access comes from init
C5_Witness ==
    /\ pc = "rejected"
    /\ error = MixedError
    /\ \A y \in Range(app.accesses) : y.access = "Shared" => y.prio = None

\* the late_resources map is the one analyze::app returns
LateReady ==
    pc \in {"accesses", "send", "timers", "spawn", "schedule", "capacity", "done"}

\* the cores whose subset of the late_resources map holds `name`
Initializers(late, name) == {c \in DOMAIN late : name \in late[c]}

\* the map is a partition of the declared late resources
IsPartition(a, late) ==
    /\ \A name \in a.late_resources : Cardinality(Initializers(late, name)) = 1
    /\ UNION {late[c] : c \in DOMAIN late} = a.late_resources

\* C3: for every accepted model that declares late resources, the late_resources map is
\* a partition of the declared late resources: each one in exactly one core's subset,
\* and nothing else in any subset.
C3_LatePartition ==
    (LateReady /\ app.late_resources # {}) => IsPartition(app, late_resources)

\* the inits that leave their `late` list empty
ImplicitInits(a) == {c \in DOMAIN a.inits : a.inits[c].late = {}}

\* C4: check::app rejects every model with a late resource and two or more inits whose
\* `late` list is empty, so debug_assert!(rest.is_none()) holds in every analysis.
C4_TwoImplicitInitsRejected ==
    /\ (pc # "check" /\ app.late_resources # {}
            /\ Cardinality(ImplicitInits(app)) >= 2) => pc = "rejected"
    /\ pc \notin {"check", "rejected"} => LateAssignment(app).asserted

\* the late lists of the inits are disjoint, name only late resources, and leave
\* nothing uninitialized
WellFormedLate(a) ==
    /\ \A c \in DOMAIN a.inits : a.inits[c].late \subseteq a.late_resources
    /\ \A c \in DOMAIN a.inits : \A d \in DOMAIN a.inits :
          c # d => a.inits[c].late \cap a.inits[d].late = {}
    /\ Cardinality(ImplicitInits(a)) <= 1
    /\ (ImplicitInits(a) = {}
          => UNION {a.inits[c].late : c \in DOMAIN a.inits} = a.late_resources)

\* the barriers are those analyze::app returns
BarriersReady == OwnershipsReady

\* a context with a priority on core r accesses a late resource assigned to core i
PrioritizedCrossAccess(a, late, r, i) ==
    \E acc \in Range(a.accesses) :
        /\ acc.prio # None
        /\ acc.core = r
        /\ acc.name \in a.late_resources
        /\ i \in Initializers(late, acc.name)

\* C6: (r, i) is an initialization barrier exactly when a context with a priority on
\* core r accesses a late resource assigned to another core i; accesses from init
\* alone create none.  Stated for the models whose late lists are well formed.
C6_BarriersFromPrioritizedAccesses ==
    (BarriersReady /\ WellFormedLate(app)) =>
        \A r \in Cores : \A i \in Cores :
            (r \in DOMAIN initialization_barriers /\ i \in initialization_barriers[r])
                <=> (i # r /\ PrioritizedCrossAccess(app, late_resources, r, i))

\* the send_types of the resource rules are in place and no call has added to them
ResourceSendReady == pc \in {"timers", "spawn"}

\* C9: the type of a late resource whose ownership exists and is not Owned{0} is in
\* the send_types of the core that initializes it; a late resource owned by idle or
\* without ownership adds nothing.  Stated for the models whose late lists are well
\* formed and whose inits access no resource.
C9_LateSendOnInitializer ==
    (ResourceSendReady /\ WellFormedLate(app) /\ InitResources(app) = {}) =>
        \A name \in app.late_resources : \A c \in Cores :
            ResTy(name) \in Entry(send_types, c, {})
                <=> (NotOwnedByIdle(ownerships, name)
                        /\ c \in Initializers(late_resources, name))

\* the spawn and the schedule loops have run
CallsAnalyzed == pc \in {"capacity", "done"}

AllCalls(a) == Range(a.spawn_calls) \cup Range(a.schedule_calls)

\* the caller and the task it dispatches run in different contexts
CrossesContext(call, callee) ==
    \/ call.core # callee.core
    \/ call.prio = None
    \/ Unwrap(call.prio) # callee.priority

\* C7: the payload types of a task dispatched from another core, from another
\* priority of its core, or from init are in send_types of the caller's and of the
\* task's core; a task only ever dispatched from its own core and priority has its
\* payload types in no send set.
C7_PayloadSend ==
    CallsAnalyzed =>
        /\ \A call \in AllCalls(app) :
              LET callee == app.software_tasks[call.name]
              IN  CrossesContext(call, callee) =>
                     /\ callee.inputs \subseteq Entry(send_types, call.core, {})
                     /\ callee.inputs \subseteq Entry(send_types, callee.core, {})
        /\ \A t \in DOMAIN app.software_tasks :
              (\A call \in AllCalls(app) :
                    call.name = t => ~CrossesContext(call, app.software_tasks[t]))
                 => \A c \in Cores :
                       app.software_tasks[t].inputs \cap Entry(send_types, c, {}) = {}

\* every queue of the map has the exact sum of the capacities of its tasks
ExactCapacities(a, m) ==
    \A k \in DOMAIN m :
        /\ m[k].capacity = CapacitySum(a, m[k].tasks)
        /\ \A t \in m[k].tasks :
              m[k].capacity - a.software_tasks[t].capacity
                  = CapacitySum(a, m[k].tasks \ {t})

\* C8: the capacity of every channel and timer queue is the exact sum of the declared
\* capacities of its tasks, so that removing a task lowers it by that task's capacity;
\* the sum neither wraps nor aborts the analysis.
C8_ExactCapacity ==
    /\ pc # "panic"
    /\ pc = "done" => (ExactCapacities(app, channels) /\ ExactCapacities(app, timer_queues))

\* the calls routed along a channel key
RoutedAlong(a, calls, key) ==
    {i \in DOMAIN calls : ChannelKey(calls[i], a.software_tasks[calls[i].name]) = key}

\* the calls of a free queue key
ReturningTo(calls, key) == {i \in DOMAIN calls : FreeQueueKey(calls[i]) = key}

\* the priorities of the calls `is` that have one
CallPrios(calls, is) == {Unwrap(calls[i].prio) : i \in {j \in is : calls[j].prio # None}}

\* None for no priority at all, else the highest
Highest(ps) == IF ps = {} THEN None ELSE Some(SetMax(ps))

\* what contends for a channel: the prioritized spawn call sites and, when a schedule
\* call is routed along it, the handler of the sender's timer queue
ChannelContenders(a, tqs, key) ==
    CallPrios(a.spawn_calls, RoutedAlong(a, a.spawn_calls, key))
        \cup (IF RoutedAlong(a, a.schedule_calls, key) = {} THEN {}
              ELSE {tqs[key[3]].priority})

\* what contends for a free queue: the prioritized spawn and schedule call sites
FreeQueueContenders(a, key) ==
    CallPrios(a.spawn_calls, ReturningTo(a.spawn_calls, key))
        \cup CallPrios(a.schedule_calls, ReturningTo(a.schedule_calls, key))

\* C10: a channel exists for every key a call is routed along, holds the tasks routed
\* along it, and its ceiling is the highest priority among the prioritized spawn call
\* sites and the sender's timer queue handler (when a schedule call uses it), None when
\* only init spawns use it; the ceiling of a free queue is the highest priority among
\* the prioritized call sites of its task on its core, None when all are init.
C10_Ceilings ==
    CallsAnalyzed =>
        /\ DOMAIN channels =
              {ChannelKey(call, app.software_tasks[call.name]) : call \in AllCalls(app)}
        /\ \A key \in DOMAIN channels :
              /\ channels[key].ceiling = Highest(ChannelContenders(app, timer_queues, key))
              /\ channels[key].tasks # {}
              /\ channels[key].tasks =
                    {app.spawn_calls[i].name : i \in RoutedAlong(app, app.spawn_calls, key)}
                    \cup {app.schedule_calls[i].name :
                             i \in RoutedAlong(app, app.schedule_calls, key)}
        /\ DOMAIN free_queues = {FreeQueueKey(call) : call \in AllCalls(app)}
        /\ \A key \in DOMAIN free_queues :
              free_queues[key] = Highest(FreeQueueContenders(app, key))

\* two spawn call sites of falling priority on one channel, next to a channel that
\* only init spawns use
C10_Witness ==
    /\ pc = "done"
    /\ Len(app.spawn_calls) = 2
    /\ app.spawn_calls[1].prio = Some(MaxPrio)
    /\ app.spawn_calls[2].prio = Some(0)
    /\ \E key \in DOMAIN channels :
          /\ RoutedAlong(app, app.spawn_calls, key) = {1, 2}
          /\ channels[key].ceiling = Some(MaxPrio)

\* the schedule calls issued from a core
ScheduledFrom(a, core) == {i \in DOMAIN a.schedule_calls : a.schedule_calls[i].core = core}

\* the tasks those calls schedule
ScheduledTasks(a, core) == {a.schedule_calls[i].name : i \in ScheduledFrom(a, core)}

SharedCores(a, name) ==
    {acc.core : acc \in {x \in Range(a.accesses) :
                            x.name = name /\ x.prio # None /\ x.access = "Shared"}}

\* C12: the type of a Contended resource is in the sync_types of every core on which a
\* context with a priority accesses it in Shared mode, whatever the order of the
\* accesses; a resource that is not Contended has its type in no sync_types set.
C12_SyncOnSharingCores ==
    OwnershipsReady =>
        \A name \in Names :
            IF name \in DOMAIN ownerships /\ ownerships[name].kind = "Contended"
            THEN \A c \in SharedCores(app, name) :
                    ResTy(name) \in Entry(sync_types, c, {})
            ELSE \A c \in Cores : ResTy(name) \notin Entry(sync_types, c, {})

====
